---- MODULE Spec2Model ----
(***************************************************************************)
(* Forwarding monitor of btc_forwarder.py: monitor_wallet,                 *)
(* calculate_transaction_fee and forward_funds.                            *)
(*                                                                         *)
(* Amounts are integers in satoshis.  A fee-rate sample returned by        *)
(* service.estimatefee (BTC per KB) is represented by fee_per_kb * 1e8,    *)
(* i.e. in satoshis per KB, so 0.1 BTC/KB is 10000000 and 0.0001 BTC/KB    *)
(* is 10000.                                                               *)
(***************************************************************************)
EXTENDS Integers, Sequences, FiniteSets, TLC

\* ------------------------------------------------------------------ bounds
\* Highest confirmation depth the chain reaches in the model.
MaxConf == 3
\* Largest number of wallet.send_to calls counted per output.
MaxSends == 2
\* Number of grid steps of fee-rate samples given to the fee policy.
MaxRateSteps == 110

\* ------------------------------------------------------- program constants
RequiredConfirmations == 3
CheckInterval == 60
FeeCeiling == 10000000
FallbackRate == 10000
TxSize == 250
BytesPerKB == 1024
MAX_FEE == 25000
MIN_FEE == 1000
DEFAULT_FEE == 10000

\* Grid step of the fee-rate samples: one step of rate adds TxSize / 4 to
\* the converted fee.
RateStep == BytesPerKB \div 4

\* ------------------------------------------------------------- environment
TxIds == {1, 2}
\* An unspent output is (transaction identifier, output index).
Outputs == {[txid |-> 1, n |-> 0], [txid |-> 1, n |-> 1], [txid |-> 2, n |-> 0]}
\* Output values in satoshis.
Values == {1500, 2000, 100000}
\* What service.estimatefee(4) can do: raise, return something that is not
\* a usable number (None, NaN), or return a rate (satoshis per KB).
NoSample == [kind |-> "none", v |-> 0]
Failures == {[kind |-> "raise", v |-> 0], [kind |-> "nan", v |-> 0]}
\* Samples the monitor meets: failures and the rates giving the fees 1000,
\* 2000 and 5000.
MonitorSamples ==
    Failures \cup {[kind |-> "num", v |-> r] : r \in {0, 8192, 20480}}
\* Samples for the fee policy on its own: a grid of rates from negative to
\* beyond the rate whose fee is MAX_FEE, the neighbours of every threshold,
\* 0.5 BTC/KB and an absurdly large rate.
GridRates == {k * RateStep : k \in (0 - 4)..MaxRateSteps}
EdgeRates == {-1, 1, 4095, 4097, 102399, 102401, 102405, FeeCeiling - 1,
              FeeCeiling, FeeCeiling + 1, 5 * FeeCeiling, 2000000000}
FeeSamples ==
    Failures \cup {[kind |-> "num", v |-> r] : r \in GridRates \cup EdgeRates}

\* Program state: pc (position in monitor_wallet), processed_txs, utxos (the
\* part of the list returned by wallet.utxos() that the for loop has not
\* finished with; its head is the output being looked at), and the locals
\* utxo, tx_fee, amount_to_forward.  Environment: conf
\* (confirmations of each transaction on the chain), value (value of each
\* output).  History: sample (what estimatefee did in the last fee
\* computation: it raised, returned no usable number, or returned a rate),
\* branch (the branch the last step took), slept (duration of
\* the last sleep), sendCount / okSent / failedSent (wallet.send_to calls per
\* output and how they ended), skipped (outputs that took the too-small
\* branch).
\* send_args holds the arguments of the wallet.send_to call in flight.
\* fresh tells whether tx_fee was returned by calculate_transaction_fee in
\* the current poll cycle.  main's state: exit_status (status of sys.exit,
\* NoExit while running), config_saved (save_config wrote the file),
\* wallet_opened (get_or_create_wallet returned a wallet).
\* rest holds, from an exception raised inside the for loop until the sleep
\* of the except clause has ended, the outputs of the list that came after
\* the failing one and were therefore not looked at.
VARIABLES pc, processed_txs, utxos, conf, value, utxo, tx_fee,
          amount_to_forward, sample, branch, slept, sendCount, okSent,
          failedSent, skipped, send_args, fresh, exit_status, config_saved,
          wallet_opened, rest

vars == <<pc, processed_txs, utxos, conf, value, utxo, tx_fee,
          amount_to_forward, sample, branch, slept, sendCount, okSent,
          failedSent, skipped, send_args, fresh, exit_status, config_saved,
          wallet_opened, rest>>

\* ------------------------------------------------------------------ helpers
Max(a, b) == IF a >= b THEN a ELSE b

\* Python int(n * m / d): truncation toward zero, for m >= 0 and d > 0.  The
\* product is split as (n div d) * m + ((n mod d) * m) div d so that it
\* stays within the checker's 32-bit integers.
MulDivFloor(n, m, d) == (n \div d) * m + ((n % d) * m) \div d

IntTrunc(n, m, d) == IF n >= 0 THEN MulDivFloor(n, m, d)
                     ELSE -MulDivFloor(-n, m, d)

\* Sequences without repetition over a set (what wallet.utxos() may return).
RECURSIVE Perms(_)
Perms(S) == IF S = {} THEN {<<>>}
            ELSE UNION {{<<x>> \o p : p \in Perms(S \ {x})} : x \in S}

UtxoLists == UNION {Perms(S) : S \in SUBSET Outputs}

NoUtxo == [txid |-> 0, n |-> 0]

\* The validated destination address handed to monitor_wallet.
DestinationAddress == "destination_address"
NoArgs == [dest |-> "", amount |-> 0, fee |-> 0]
NoExit == 0 - 1

\* Variants of calculate_transaction_fee with a plausible slip: the cap of
\* lines 206-209 left out; the except clause of lines 217-220 returning the
\* minimum fee instead of the default.
CalculateTransactionFeeNoCap(s) ==
    IF s.kind # "num"
    THEN DEFAULT_FEE
    ELSE LET fee_per_kb == IF s.v > FeeCeiling THEN FallbackRate ELSE s.v
             raw        == IntTrunc(fee_per_kb, TxSize, BytesPerKB)
         IN  Max(raw, MIN_FEE)

CalculateTransactionFeeNoDefault(s) ==
    IF s.kind # "num"
    THEN MIN_FEE
    ELSE LET fee_per_kb == IF s.v > FeeCeiling THEN FallbackRate ELSE s.v
             raw        == IntTrunc(fee_per_kb, TxSize, BytesPerKB)
             capped     == IF raw > MAX_FEE THEN MAX_FEE ELSE raw
         IN  Max(capped, MIN_FEE)

\* Variant: the sanity check of lines 196-198 left out.
CalculateTransactionFeeNoClamp(s) ==
    IF s.kind # "num"
    THEN DEFAULT_FEE
    ELSE LET raw    == IntTrunc(s.v, TxSize, BytesPerKB)
             capped == IF raw > MAX_FEE THEN MAX_FEE ELSE raw
         IN  Max(capped, MIN_FEE)

\* Variant: the sanity check of line 196 compares with >= instead of >.
CalculateTransactionFeeCeilingGeq(s) ==
    IF s.kind # "num"
    THEN DEFAULT_FEE
    ELSE LET fee_per_kb == IF s.v >= FeeCeiling THEN FallbackRate ELSE s.v
             raw        == IntTrunc(fee_per_kb, TxSize, BytesPerKB)
             capped     == IF raw > MAX_FEE THEN MAX_FEE ELSE raw
         IN  Max(capped, MIN_FEE)

\* ---------------------------------------------- calculate_transaction_fee
CalculateTransactionFee(s) ==
    IF s.kind # "num"
    THEN DEFAULT_FEE
    ELSE LET fee_per_kb == IF s.v > FeeCeiling THEN FallbackRate ELSE s.v
             raw        == IntTrunc(fee_per_kb, TxSize, BytesPerKB)
             capped     == IF raw > MAX_FEE THEN MAX_FEE ELSE raw
         IN  Max(capped, MIN_FEE)

\* ----------------------------------------------------- monitor_wallet tests
\* Variant: the membership test never finds the identifier.
IsProcessedNever(tx_id, ledger) == FALSE

\* line 145: tx_id in processed_txs
IsProcessed(tx_id, ledger) == tx_id \in ledger

\* Variant: threshold off by one.
IsConfirmedOffByOne(confirmations) == confirmations >= RequiredConfirmations - 1

\* Variant: the threshold is not tested.
IsConfirmedAlways(confirmations) == TRUE

\* line 154: confirmations >= required_confirmations
IsConfirmed(confirmations) == confirmations >= RequiredConfirmations

\* Variant: non-strict comparison.
ShouldForwardGeq(v, fee) == v >= fee

\* line 159: value > tx_fee
ShouldForward(v, fee) == v > fee

\* Variant: the fee is not deducted.
AmountToForwardGross(v, fee) == v

\* line 160: amount_to_forward = value - tx_fee
AmountToForward(v, fee) == v - fee

\* Variant: a fee computed earlier is kept instead of asking again.
FeeQuoteCached(prev, s) ==
    IF prev # 0 THEN [fee |-> prev, called |-> FALSE]
    ELSE [fee |-> CalculateTransactionFee(s), called |-> TRUE]

\* Variant: the result is smoothed with the fee returned before.
FeeQuoteSmoothed(prev, s) ==
    IF prev # 0
    THEN [fee |-> (prev + CalculateTransactionFee(s)) \div 2, called |-> TRUE]
    ELSE [fee |-> CalculateTransactionFee(s), called |-> TRUE]

\* line 156: tx_fee = calculate_transaction_fee(service); the quote comes
\* from a call made now, whatever tx_fee held before.
FeeQuote(prev, s) == [fee |-> CalculateTransactionFee(s), called |-> TRUE]

\* lines 165, 228: forward_funds(wallet, destination_address,
\* amount_to_forward, tx_fee) calls wallet.send_to(destination_address,
\* amount, fee=fee).
SendToArgs(dest, amount, fee) == [dest |-> dest, amount |-> amount, fee |-> fee]

\* Variant: the set is replaced instead of extended.
RecordAfterSendReplace(ledger, tx_id, sent) == {tx_id}

\* line 166: processed_txs.add(tx_id), executed after forward_funds returns,
\* whatever forward_funds returned.
RecordAfterSend(ledger, tx_id, sent) == ledger \cup {tx_id}

\* Variant: the too-small branch does not record.
RecordSkipForgets(ledger, tx_id) == ledger

\* line 170: processed_txs.add(tx_id) on the too-small branch.
RecordSkip(ledger, tx_id) == ledger \cup {tx_id}

\* Variant: the error leaves monitor_wallet.
OnCycleErrorExit == "exited"

\* Variant: the error is swallowed and the for loop is entered.
OnCycleErrorContinue == "loop"

\* Variant: the error is retried at once, without the sleep of line 182.
OnCycleErrorRetry == "scan"

\* lines 178-182: the except clause of the loop body.
OnCycleError == "errsleep"

\* Variant: the send error is raised again and reaches the except clause
\* of the loop.
OnSendErrorRaise == "errsleep"

\* lines 262-265: forward_funds catches the exception of wallet.send_to,
\* logs it and returns None; the for loop goes on.
OnSendError == "loop"

\* Variant: the send is started and the loop goes on without waiting.
OnSendCallAsync == "loop"

\* lines 165, 228: forward_funds and wallet.send_to are plain calls;
\* monitor_wallet stays in them until they return.
OnSendCall == "sending"

\* -------------------------------------------------------------------- Init
Init ==
    /\ pc = "scan"
    /\ processed_txs = {}
    /\ utxos = <<>>
    /\ conf = [t \in TxIds |-> 0]
    /\ value \in [Outputs -> Values]
    /\ utxo = NoUtxo
    /\ tx_fee = 0
    /\ amount_to_forward = 0
    /\ sample = NoSample
    /\ branch = "none"
    /\ slept = 0
    /\ sendCount = [o \in Outputs |-> 0]
    /\ okSent = {}
    /\ failedSent = {}
    /\ skipped = {}
    /\ send_args = NoArgs
    /\ fresh = FALSE
    /\ exit_status = NoExit
    /\ config_saved = TRUE
    /\ wallet_opened = TRUE
    /\ rest = <<>>

\* ----------------------------------------------------------------- actions
locals == <<utxo, tx_fee, amount_to_forward, sample>>
history == <<sendCount, okSent, failedSent, skipped>>
startup == <<exit_status, config_saved, wallet_opened>>

\* lines 128-131: wallet.scan() and wallet.utxos() succeed; the chain has
\* moved on (confirmations never decrease) and the loop starts on the list.
ScanOk ==
    /\ pc = "scan"
    /\ \E c \in [TxIds -> 0..MaxConf] :
          /\ \A t \in TxIds : c[t] >= conf[t]
          /\ conf' = c
    /\ \E l \in UtxoLists : utxos' = l
    /\ pc' = "loop"
    /\ branch' = "scanned"
    /\ UNCHANGED <<processed_txs, value, locals, slept,
                   history, send_args, fresh, startup, rest>>

\* lines 128-131, 178-182: wallet.scan() or wallet.utxos() raises.
ScanFail ==
    /\ pc = "scan"
    /\ pc' = OnCycleError
    /\ branch' = "scanerr"
    /\ UNCHANGED <<processed_txs, utxos, conf, value, locals, slept,
                   history, send_args, fresh, startup, rest>>

\* The for loop has an output left to look at.
HasNext == pc = "loop" /\ utxos # <<>>

\* lines 133-142, 178-182: reading the output's fields raises (neither the
\* object nor the dictionary format fits); the exception leaves the for
\* loop, the rest of the list is not looked at.
EvalMalformed ==
    /\ HasNext
    /\ utxo' = Head(utxos)
    /\ utxos' = <<>>
    /\ rest' = Tail(utxos)
    /\ pc' = OnCycleError
    /\ branch' = "malformed"
    /\ UNCHANGED <<processed_txs, conf, value, tx_fee, amount_to_forward,
                   sample, slept, history,
                   send_args, fresh, startup>>

\* lines 145-146: already in processed_txs, continue.
EvalAlready ==
    /\ HasNext
    /\ LET o == Head(utxos) IN
         /\ IsProcessed(o.txid, processed_txs)
         /\ utxo' = o
    /\ utxos' = Tail(utxos)
    /\ branch' = "already"
    /\ UNCHANGED <<pc, processed_txs, conf, value, tx_fee,
                   amount_to_forward, sample, slept, history,
                   send_args, fresh, startup, rest>>

\* lines 149-154: not processed, confirmations below the threshold.
EvalWait ==
    /\ HasNext
    /\ LET o == Head(utxos) IN
         /\ ~IsProcessed(o.txid, processed_txs)
         /\ ~IsConfirmed(conf[o.txid])
         /\ utxo' = o
    /\ utxos' = Tail(utxos)
    /\ branch' = "wait"
    /\ UNCHANGED <<pc, processed_txs, conf, value, tx_fee,
                   amount_to_forward, sample, slept, history,
                   send_args, fresh, startup, rest>>

\* lines 154-156: not processed and confirmed: calculate_transaction_fee is
\* called and returns tx_fee.
EvalFee ==
    /\ HasNext
    /\ LET o == Head(utxos) IN
         /\ ~IsProcessed(o.txid, processed_txs)
         /\ IsConfirmed(conf[o.txid])
         /\ utxo' = o
    /\ \E s \in MonitorSamples :
         LET q == FeeQuote(tx_fee, s) IN
         /\ sample' = s
         /\ tx_fee' = q.fee
         /\ fresh' = (fresh \/ q.called)
    /\ pc' = "decide"
    /\ branch' = "fee"
    /\ UNCHANGED <<processed_txs, utxos, conf, value, amount_to_forward,
                   slept, history, send_args, startup, rest>>

\* lines 159-165: value exceeds the fee: forward_funds is entered and
\* wallet.send_to is called with (destination_address, amount, fee).
DecideForward ==
    /\ pc = "decide"
    /\ ShouldForward(value[utxo], tx_fee)
    /\ sendCount[utxo] < MaxSends
    /\ amount_to_forward' = AmountToForward(value[utxo], tx_fee)
    /\ send_args' = SendToArgs(DestinationAddress, amount_to_forward', tx_fee)
    /\ sendCount' = [sendCount EXCEPT ![utxo] = @ + 1]
    /\ pc' = OnSendCall
    /\ branch' = "forward"
    /\ UNCHANGED <<processed_txs, utxos, conf, value, utxo, tx_fee, sample,
                   slept, okSent, failedSent, skipped, fresh, startup, rest>>

\* lines 167-170: value does not exceed the fee: record and go on.
DecideSkip ==
    /\ pc = "decide"
    /\ ~ShouldForward(value[utxo], tx_fee)
    /\ processed_txs' = RecordSkip(processed_txs, utxo.txid)
    /\ skipped' = skipped \cup {utxo}
    /\ utxos' = Tail(utxos)
    /\ pc' = "loop"
    /\ branch' = "skip"
    /\ UNCHANGED <<conf, value, locals, slept, sendCount, okSent, failedSent,
                   send_args, fresh, startup, rest>>

\* lines 228-261, 166: wallet.send_to returns a transaction; forward_funds
\* returns it; the monitor records the transaction identifier.
SendOk ==
    /\ pc = "sending"
    /\ okSent' = okSent \cup {utxo}
    /\ processed_txs' = RecordAfterSend(processed_txs, utxo.txid, TRUE)
    /\ utxos' = Tail(utxos)
    /\ pc' = "loop"
    /\ branch' = "sendok"
    /\ send_args' = NoArgs
    /\ UNCHANGED <<conf, value, locals, slept, sendCount, failedSent,
                   skipped, fresh, startup, rest>>

\* lines 228, 262-265, 166: wallet.send_to raises; forward_funds logs and
\* returns None; the monitor ignores the result and executes line 166.
SendFail ==
    /\ pc = "sending"
    /\ failedSent' = failedSent \cup {utxo}
    /\ processed_txs' = RecordAfterSend(processed_txs, utxo.txid, FALSE)
    /\ utxos' = Tail(utxos)
    /\ pc' = OnSendError
    /\ branch' = "sendfail"
    /\ send_args' = NoArgs
    /\ UNCHANGED <<conf, value, locals, slept, sendCount, okSent,
                   skipped, fresh, startup, rest>>

\* lines 131, 172-175: the list is exhausted; the cycle ends normally.
LoopEnd ==
    /\ pc = "loop"
    /\ utxos = <<>>
    /\ pc' = "sleep"
    /\ branch' = "cycleend"
    /\ UNCHANGED <<processed_txs, utxos, conf, value, locals, slept,
                   history, send_args, fresh, startup, rest>>

\* line 175: time.sleep(check_interval) after a normal cycle.
Sleep ==
    /\ pc = "sleep"
    /\ slept' = CheckInterval
    /\ pc' = "scan"
    /\ branch' = "slept"
    /\ fresh' = FALSE
    /\ UNCHANGED <<processed_txs, utxos, conf, value, locals, history,
                   send_args, startup, rest>>

\* line 182: time.sleep(check_interval) in the except clause.
ErrSleep ==
    /\ pc = "errsleep"
    /\ slept' = CheckInterval
    /\ pc' = "scan"
    /\ rest' = <<>>
    /\ branch' = "errslept"
    /\ fresh' = FALSE
    /\ UNCHANGED <<processed_txs, utxos, conf, value, locals, history,
                   send_args, startup>>

\* lines 401-406: KeyboardInterrupt is not an Exception; it leaves
\* monitor_wallet wherever it is raised and main prints "Exiting...".
Cancel ==
    /\ pc \in {"scan", "loop", "decide", "sending", "sleep", "errsleep"}
    /\ pc' = "exited"
    /\ branch' = "cancel"
    /\ exit_status' = 0
    /\ UNCHANGED <<processed_txs, utxos, conf, value, locals, slept, history,
                   send_args, fresh, config_saved, wallet_opened, rest>>

NextRun ==
    \/ ScanOk \/ ScanFail
    \/ EvalMalformed \/ EvalAlready \/ EvalWait \/ EvalFee
    \/ DecideForward \/ DecideSkip
    \/ SendOk \/ SendFail
    \/ LoopEnd \/ Sleep \/ ErrSleep

Next == NextRun \/ Cancel

Spec == Init /\ [][Next]_vars

\* One process run that is not cancelled, with outputs of fixed values.  The
\* loop keeps running; refreshes, readings of an output and sends that are
\* attempted again and again eventually succeed.
FixedValue == [o \in Outputs |-> IF o.txid = 2 THEN 100000
                                 ELSE IF o.n = 0 THEN 2000 ELSE 1500]

InitFair == Init /\ value = FixedValue

Fairness ==
    /\ WF_vars(NextRun)
    /\ SF_vars(ScanOk)
    /\ SF_vars(EvalAlready \/ EvalWait \/ EvalFee)
    /\ SF_vars(SendOk)

FairSpec == InitFair /\ [][NextRun]_vars /\ Fairness

\* lines 120, 128, 191, 228: wallet.scan, service.estimatefee and
\* wallet.send_to are called without a timeout and nothing watches over
\* them; when the collaborator never answers, the call never returns and
\* monitor_wallet stays in it.
CallHangs ==
    /\ \/ pc \in {"scan", "sending"}
       \/ /\ HasNext
          /\ ~IsProcessed(Head(utxos).txid, processed_txs)
          /\ IsConfirmed(conf[Head(utxos).txid])
    /\ pc' = "blocked"
    /\ branch' = "hang"
    /\ UNCHANGED <<processed_txs, utxos, conf, value, locals, slept, history,
                   send_args, fresh, startup, rest>>

\* An uncancelled process run, under the same fairness, talking to
\* collaborators that may stop answering.
BlockingSpec == InitFair /\ [][NextRun \/ CallHangs]_vars /\ Fairness

\* ------------------------------------------------------------------- main
\* Variant: the sys.exit(1) of line 386 is missing and main goes on.
OnInvalidAddressContinue == "save"

\* lines 383-386: what main does when validate_bitcoin_address is False.
OnInvalidAddress == "exited"

monitor == <<processed_txs, utxos, conf, value, locals, slept, history,
             send_args, fresh, rest>>

\* lines 356-357, 311-337: check_dependencies finds bitcoinlib missing.
DependenciesMissing ==
    /\ pc = "main"
    /\ pc' = "exited"
    /\ exit_status' = 1
    /\ branch' = "nodeps"
    /\ UNCHANGED <<monitor, config_saved, wallet_opened>>

\* lines 356-380: dependencies present (qrcode is optional), arguments
\* parsed, configuration loaded, destination address read.
ReadAddress ==
    /\ pc = "main"
    /\ pc' = "validate"
    /\ branch' = "address"
    /\ UNCHANGED <<monitor, startup>>

\* lines 383-386, 79-88: Address.parse raises, validate_bitcoin_address
\* returns False, main calls sys.exit(1).
ValidateFail ==
    /\ pc = "validate"
    /\ pc' = OnInvalidAddress
    /\ exit_status' = IF pc' = "exited" THEN 1 ELSE exit_status
    /\ branch' = "invalid"
    /\ UNCHANGED <<monitor, config_saved, wallet_opened>>

\* lines 383, 79-85: the address parses.
ValidateOk ==
    /\ pc = "validate"
    /\ pc' = "save"
    /\ branch' = "valid"
    /\ UNCHANGED <<monitor, startup>>

\* lines 389, 42-56: save_config writes the file, or fails and only logs.
SaveConfig ==
    /\ pc = "save"
    /\ config_saved' \in BOOLEAN
    /\ pc' = "wallet"
    /\ branch' = "saved"
    /\ UNCHANGED <<monitor, exit_status, wallet_opened>>

\* lines 392-404, 90-104, 111-123: the wallet is opened or created and
\* monitor_wallet starts with an empty processed_txs.
OpenWallet ==
    /\ pc = "wallet"
    /\ wallet_opened' = TRUE
    /\ pc' = "scan"
    /\ branch' = "monitoring"
    /\ UNCHANGED <<monitor, exit_status, config_saved>>

\* lines 392, 94-101: opening or creating the wallet raises; nothing in
\* main catches it and the interpreter ends with status 1.
OpenWalletFail ==
    /\ pc = "wallet"
    /\ pc' = "exited"
    /\ exit_status' = 1
    /\ branch' = "walleterr"
    /\ UNCHANGED <<monitor, config_saved, wallet_opened>>

NextStartup ==
    \/ DependenciesMissing \/ ReadAddress \/ ValidateFail \/ ValidateOk
    \/ SaveConfig \/ OpenWallet \/ OpenWalletFail

InitMain ==
    /\ pc = "main"
    /\ processed_txs = {}
    /\ utxos = <<>>
    /\ conf = [t \in TxIds |-> 0]
    /\ value = FixedValue
    /\ utxo = NoUtxo
    /\ tx_fee = 0
    /\ amount_to_forward = 0
    /\ sample = NoSample
    /\ branch = "none"
    /\ slept = 0
    /\ sendCount = [o \in Outputs |-> 0]
    /\ okSent = {}
    /\ failedSent = {}
    /\ skipped = {}
    /\ send_args = NoArgs
    /\ fresh = FALSE
    /\ exit_status = NoExit
    /\ config_saved = FALSE
    /\ wallet_opened = FALSE
    /\ rest = <<>>

NextMain == NextStartup \/ Next

\* The whole process, from the entry of main.
MainSpec == InitMain /\ [][NextMain]_vars

\* ---------------------------------------------------------------- restart
\* Variant: the ledger of the previous run is loaded again.
LedgerAtStartLoaded(previous) == previous

\* line 123: processed_txs = set(); nothing is read from a file or any
\* other store, whatever an earlier run recorded.
LedgerAtStart(previous) == {}

\* lines 354-404, 111-123: after the process has ended it is started
\* again, passes the startup steps and enters monitor_wallet anew.  The
\* chain (conf, value) and what happened to the outputs so far stay.
\* Restarts are followed until some output has been sent a second time.
Restart ==
    /\ pc = "exited"
    /\ \A o \in Outputs : sendCount[o] <= 1
    /\ processed_txs' = LedgerAtStart(processed_txs)
    /\ utxos' = <<>>
    /\ utxo' = NoUtxo
    /\ tx_fee' = 0
    /\ amount_to_forward' = 0
    /\ sample' = NoSample
    /\ slept' = 0
    /\ send_args' = NoArgs
    /\ fresh' = FALSE
    /\ exit_status' = NoExit
    /\ pc' = "scan"
    /\ rest' = <<>>
    /\ branch' = "restart"
    /\ UNCHANGED <<conf, value, history, config_saved, wallet_opened>>

\* The steps of a run in which no collaborator call fails.
NextNoFailure ==
    \/ ScanOk \/ EvalAlready \/ EvalWait \/ EvalFee
    \/ DecideForward \/ DecideSkip \/ SendOk
    \/ LoopEnd \/ Sleep \/ Cancel

\* Process runs one after the other on the same wallet and chain, each
\* ended by cancellation.
RestartSpec == InitFair /\ [][NextNoFailure \/ Restart]_vars

\* ------------------------------------------------- one poll cycle as a whole
\* lines 131-170 for one output o, given the ledger and the set of outputs
\* sent so far in the cycle (st), the confirmations c and the fee quote f
\* that calculate_transaction_fee returns during this cycle.
CycleStep(st, o, c, f) ==
    IF IsProcessed(o.txid, st.ledger) THEN st
    ELSE IF ~IsConfirmed(c[o.txid]) THEN st
    ELSE IF ShouldForward(value[o], f)
         THEN [ledger |-> RecordAfterSend(st.ledger, o.txid, TRUE),
               sent   |-> st.sent \cup {o}]
         ELSE [ledger |-> RecordSkip(st.ledger, o.txid), sent |-> st.sent]

\* lines 131-170: the for loop over the list l.
RECURSIVE RunCycle(_, _, _, _)
RunCycle(l, st, c, f) ==
    IF l = <<>> THEN st
    ELSE RunCycle(Tail(l), CycleStep(st, Head(l), c, f), c, f)

Range(l) == {l[i] : i \in 1..Len(l)}

\* lines 128-131: a poll whose outputs are all readable; the Fee Service
\* answers every request of this cycle with the same sample.
OrderPoll ==
    /\ pc = "scan"
    /\ \E c \in [TxIds -> 0..MaxConf] :
          /\ \A t \in TxIds : c[t] >= conf[t]
          /\ conf' = c
    /\ \E l \in UtxoLists : utxos' = l
    /\ \E s \in MonitorSamples :
          /\ sample' = s
          /\ tx_fee' = CalculateTransactionFee(s)
    /\ pc' = "loop"
    /\ branch' = "scanned"
    /\ UNCHANGED <<processed_txs, value, utxo, amount_to_forward, slept,
                   history, send_args, fresh, startup, rest>>

\* lines 131-175: the whole for loop, every send succeeding, then the
\* sleep.  okSent becomes the set of outputs sent in this cycle.
OrderCycle ==
    /\ pc = "loop"
    /\ LET r == RunCycle(utxos, [ledger |-> processed_txs, sent |-> {}],
                         conf, tx_fee)
       IN  /\ processed_txs' = r.ledger
           /\ okSent' = r.sent
           /\ sendCount' = [o \in Outputs |->
                               IF o \in r.sent /\ sendCount[o] < MaxSends
                               THEN sendCount[o] + 1 ELSE sendCount[o]]
    /\ utxos' = <<>>
    /\ slept' = CheckInterval
    /\ pc' = "scan"
    /\ branch' = "slept"
    /\ UNCHANGED <<conf, value, locals, failedSent, skipped, send_args,
                   fresh, startup, rest>>

\* Poll cycles taken as a whole, under the friendliest environment.
OrderSpec == Init /\ [][OrderPoll \/ OrderCycle]_vars

\* The fee policy on its own: calculate_transaction_fee applied to one
\* sample after another.
FeeCall ==
    /\ \E s \in FeeSamples :
         /\ sample' = s
         /\ tx_fee' = CalculateTransactionFee(s)
    /\ branch' = "fee"
    /\ UNCHANGED <<pc, processed_txs, utxos, conf, value, utxo,
                   amount_to_forward, slept, history, send_args, fresh,
                   startup, rest>>

FeeSpec == InitFair /\ [][FeeCall]_vars

TypeOK ==
    /\ pc \in {"main", "validate", "save", "wallet", "scan", "loop", "decide",
              "sending", "sleep", "errsleep", "blocked", "exited"}
    /\ exit_status \in {NoExit, 0, 1}
    /\ processed_txs \subseteq TxIds
    /\ tx_fee \in 0..MAX_FEE

\* ================================================================== claims

\* C1. Idempotency: over any number of poll cycles of one process run,
\* wallet.send_to is invoked at most once for each output, also when later
\* polls keep reporting an output that was already forwarded.
C1_SendAtMostOnce == \A o \in Outputs : sendCount[o] <= 1

\* An output that was sent successfully is reported again by a later poll
\* and passed over.
C1_Witness ==
    \E o \in okSent : branch = "already" /\ utxo = o /\ sendCount[o] = 1

\* C2. Retry on send failure: the step in which the send for an output
\* fails leaves that output out of the ledger (so that the next cycle
\* attempts it again).
C2_FailedSendNotRecorded ==
    [][(pc = "sending" /\ branch' = "sendfail")
          => utxo.txid \notin processed_txs']_vars

\* C3. Ledger-record invariant: an identifier is in the ledger only if a
\* send for an output it identifies completed successfully or a too-small
\* decision was made for it.
C3_LedgerOnlySentOrSkipped ==
    \A t \in processed_txs :
        \E o \in Outputs : o.txid = t /\ o \in (okSent \cup skipped)

\* C4. Fee bounds: whatever the Fee Service returns (zero, negative, normal,
\* above the ceiling, absurdly large) and also when it fails, the fee
\* returned by calculate_transaction_fee lies in [MIN_FEE, MAX_FEE].
C4_FeeBounds == sample.kind # "none" => tx_fee \in MIN_FEE..MAX_FEE

\* The largest rate that is still converted (exactly the ceiling) has been
\* quoted and the fee is the cap.
C4_Witness == sample = [kind |-> "num", v |-> FeeCeiling] /\ tx_fee = MAX_FEE

\* C5. Decision correctness: the step after the fee computation forwards
\* iff value > fee, with amount exactly value - fee (hence positive), and
\* takes the too-small branch, without a send, iff value <= fee.
C5_DecisionCorrect ==
    [][(pc = "decide" /\ branch' \in {"forward", "skip"})
          => /\ (branch' = "forward") <=> (value[utxo] > tx_fee)
             /\ (branch' = "skip") <=> (value[utxo] <= tx_fee)
             /\ branch' = "forward"
                   => /\ amount_to_forward' = value[utxo] - tx_fee
                      /\ amount_to_forward' > 0
                      /\ pc' = "sending"
                      /\ sendCount'[utxo] = sendCount[utxo] + 1
             /\ branch' = "skip"
                   => /\ sendCount' = sendCount
                      /\ pc' = "loop"]_vars

\* The boundary value = fee took the too-small branch.
C5_Witness == branch = "skip" /\ value[utxo] = tx_fee /\ utxo \in skipped

\* C6. Confirmation gating: a step that looks at an output whose
\* confirmations are below the threshold computes no fee, takes no
\* decision, sends nothing and records nothing.
C6_ConfirmationGating ==
    [][(HasNext /\ conf[Head(utxos).txid] < RequiredConfirmations)
          => /\ tx_fee' = tx_fee
             /\ sample' = sample
             /\ pc' \notin {"decide", "sending"}
             /\ sendCount' = sendCount
             /\ processed_txs' = processed_txs
             /\ skipped' = skipped]_vars

\* An unprocessed output one confirmation short of the threshold was looked
\* at in a poll after the first one and left waiting.
C6_Witness ==
    /\ branch = "wait"
    /\ conf[utxo.txid] = RequiredConfirmations - 1
    /\ utxo.txid \notin processed_txs
    /\ slept = CheckInterval

\* C7. Skip is terminal: an output that took the too-small branch is in the
\* ledger and no send is ever invoked for it, before or after.
C7_SkipTerminal ==
    \A o \in skipped : sendCount[o] = 0 /\ o.txid \in processed_txs

\* A skipped output is reported again when the latest fee quote is lower
\* than its value, and is passed over.
C7_Witness ==
    \E o \in skipped : branch = "already" /\ utxo = o /\ tx_fee < value[o]

\* C8. Every output whose value exceeds any fee and that the monitor keeps
\* reading with enough confirmations is eventually sent successfully.
C8_EventuallyForwarded ==
    \A o \in Outputs :
        (/\ value[o] > MAX_FEE
         /\ []<>(/\ utxo = o
                 /\ branch \in {"already", "fee"}
                 /\ conf[o.txid] >= RequiredConfirmations))
            => <>(o \in okSent)

\* C9. No error ends the monitor: an error of the refresh or of reading an
\* output leads to the sleep of the except clause, that sleep lasts the
\* check interval like the normal one and is followed by a new cycle; a
\* failed send returns to the loop; only cancellation exits.
C9_ErrorsNeverTerminate ==
    [][/\ branch' \in {"scanerr", "malformed"} => pc' = "errsleep"
       /\ branch' = "sendfail" => pc' = "loop"
       /\ (pc \in {"errsleep", "sleep"} /\ branch' # "cancel")
             => (pc' = "scan" /\ slept' = CheckInterval)
       /\ pc' = "exited" => branch' = "cancel"]_vars

\* After an error the monitor slept the check interval and is about to
\* refresh again.
C9_Witness == pc = "scan" /\ branch = "errslept" /\ slept = CheckInterval

\* C10. Fee estimation failure never halts forwarding: when estimatefee
\* raises or returns no usable number, the fee is the default and the
\* output goes on to its forward/skip decision in the same cycle.
C10_FeeFailureDefault ==
    [][/\ (pc = "loop" /\ branch' = "fee" /\ sample' \in Failures)
             => (tx_fee' = DEFAULT_FEE /\ pc' = "decide")
       /\ (pc = "decide" /\ sample \in Failures /\ branch' # "cancel")
             => /\ tx_fee = DEFAULT_FEE
                /\ branch' \in {"forward", "skip"}
                /\ utxo' = utxo]_vars

\* estimatefee raised and the output was forwarded with the default fee.
C10_Witness ==
    /\ branch = "forward"
    /\ sample.kind = "raise"
    /\ tx_fee = DEFAULT_FEE
    /\ amount_to_forward = value[utxo] - DEFAULT_FEE

\* C11. Startup validation is fatal and precedes everything else: when the
\* destination address fails validation the process has exited with status
\* 1 and no configuration was saved, no wallet opened, no poll made, no
\* send invoked; nothing of that happens before the validation either.
C11_InvalidAddressStops ==
    (pc \in {"main", "validate"} \/ branch = "invalid")
        => /\ branch = "invalid" => (pc = "exited" /\ exit_status = 1)
           /\ ~config_saved
           /\ ~wallet_opened
           /\ utxos = <<>>
           /\ conf = [t \in TxIds |-> 0]
           /\ slept = 0
           /\ processed_txs = {}
           /\ \A o \in Outputs : sendCount[o] = 0

\* The address was rejected and the process is gone with status 1.
C11_Witness == branch = "invalid" /\ pc = "exited" /\ exit_status = 1

\* C12. Cancellation safety: while a send is in flight the next thing that
\* happens is the end of that send (success or failure), never the
\* cancellation.
C12_SendEndsBeforeCancel ==
    [][pc = "sending" => branch' \in {"sendok", "sendfail"}]_vars

\* C13. The ledger is append-only and blocks re-evaluation: no step removes
\* an identifier, and a step that looks at an output whose identifier is
\* in the ledger computes no fee, takes no decision and sends nothing.
C13_LedgerAppendOnly ==
    [][/\ processed_txs \subseteq processed_txs'
       /\ (HasNext /\ Head(utxos).txid \in processed_txs)
             => /\ tx_fee' = tx_fee
                /\ sample' = sample
                /\ fresh' = fresh
                /\ pc' \notin {"decide", "sending"}
                /\ sendCount' = sendCount
                /\ skipped' = skipped]_vars

\* Both identifiers are in the ledger and an output acted upon earlier is
\* reported again and passed over.
C13_Witness ==
    /\ processed_txs = TxIds
    /\ branch = "already"
    /\ utxo \in (okSent \cup failedSent \cup skipped)

\* C14. Send arguments: the send in flight carries the destination address,
\* amount = value - fee and the fee of the decision, so amount + fee is the
\* output's value; an output of 100000 with exactly the required
\* confirmations and fee 2000 is sent as 98000, and the successful send
\* puts its identifier in the ledger.
C14_SendArguments ==
    /\ pc = "sending"
         => /\ send_args.dest = DestinationAddress
            /\ send_args.fee = tx_fee
            /\ send_args.amount = value[utxo] - tx_fee
            /\ send_args.amount + send_args.fee = value[utxo]
            /\ (value[utxo] = 100000 /\ tx_fee = 2000)
                  => send_args.amount = 98000
    /\ branch = "sendok" => (utxo \in okSent /\ utxo.txid \in processed_txs)

\* Scenario A has happened: 100000 at 3 of 3 confirmations, fee 2000, sent
\* as 98000 and recorded.
C14_Witness ==
    /\ branch = "sendok"
    /\ value[utxo] = 100000
    /\ conf[utxo.txid] = RequiredConfirmations
    /\ tx_fee = 2000
    /\ amount_to_forward = 98000
    /\ utxo.txid \in processed_txs

\* C15. Outputs are identified by (transaction identifier, output index):
\* the monitor passes an output over as already processed only if that very
\* output was acted upon (sent or skipped) before.
C15_OutputsKeyedByTxidAndIndex ==
    branch = "already" => utxo \in (okSent \cup failedSent \cup skipped)

\* C16. Evaluation order is irrelevant: whatever the order in which a poll
\* lists its outputs, the cycle ends with the same ledger and the same set
\* of outputs for which send was invoked.
C16_OrderIrrelevant ==
    [][(pc = "loop" /\ pc' = "scan")
          => \A p \in Perms(Range(utxos)) :
                LET r == RunCycle(p, [ledger |-> processed_txs, sent |-> {}],
                                  conf, tx_fee)
                IN  r.ledger = processed_txs' /\ r.sent = okSent']_vars

\* C17. Sync failure skips the cycle: a failed refresh goes straight to the
\* sleep of the except clause, which lasts the check interval and is
\* followed by the next refresh; in between no output is looked at, no fee
\* requested, nothing sent and the ledger is unchanged.
C17_SyncFailureSkipsCycle ==
    [][/\ branch' = "scanerr"
             => /\ pc = "scan" /\ pc' = "errsleep"
                /\ UNCHANGED <<processed_txs, utxos, utxo, tx_fee, sample,
                               fresh, send_args, history>>
       /\ pc = "errsleep"
             => /\ pc' \in {"scan", "exited"}
                /\ pc' = "scan" => slept' = CheckInterval
                /\ UNCHANGED <<processed_txs, utxos, utxo, tx_fee, sample,
                               send_args, history>>]_vars

\* A refresh failed when the ledger already held an identifier.
C17_Witness == branch = "scanerr" /\ pc = "errsleep" /\ processed_txs # {}

\* C18. First-eligible-cycle classification: an output gets an outcome
\* (send invoked, or skipped as too small) only in a decision step taken
\* with confirmations >= the threshold, it gets exactly one of the two and
\* keeps it; the first time an unprocessed output is read with enough
\* confirmations the same cycle goes on to that decision and, unless
\* cancelled, records the identifier.
Classified(o, sc, sk) == sc[o] > 0 \/ o \in sk

C18_FirstEligibleCycle ==
    [][/\ \A o \in Outputs :
             /\ (Classified(o, sendCount', skipped')
                    /\ ~Classified(o, sendCount, skipped))
                   => /\ pc = "decide" /\ utxo = o
                      /\ conf[o.txid] >= RequiredConfirmations
                      /\ ~(sendCount'[o] > 0 /\ o \in skipped')
             /\ Classified(o, sendCount, skipped)
                   => /\ sendCount'[o] = sendCount[o]
                      /\ (o \in skipped') = (o \in skipped)
       /\ (/\ HasNext
           /\ Head(utxos).txid \notin processed_txs
           /\ conf[Head(utxos).txid] >= RequiredConfirmations
           /\ branch' \notin {"malformed", "cancel"})
             => (pc' = "decide" /\ utxo' = Head(utxos))
       /\ (pc = "decide" /\ branch' # "cancel")
             => Classified(utxo, sendCount', skipped')
       /\ (pc \in {"decide", "sending"} /\ pc' = "loop")
             => utxo.txid \in processed_txs']_vars

\* In a poll after the first, an output that just reached the threshold
\* was sent and was never skipped.
C18_Witness ==
    /\ branch = "forward"
    /\ sendCount[utxo] = 1
    /\ utxo \notin skipped
    /\ conf[utxo.txid] = RequiredConfirmations
    /\ slept = CheckInterval

\* C19. Sanity clamp: a sample above the ceiling (0.1 BTC/KB) is replaced
\* by the fallback rate (0.0001 BTC/KB) before conversion, so the fee is
\* the fallback rate's fee for 250 bytes, 2441, which is <= MAX_FEE.
C19_SanityClamp ==
    (sample.kind = "num" /\ sample.v > FeeCeiling)
        => /\ tx_fee = (FallbackRate * TxSize) \div BytesPerKB
           /\ tx_fee = 2441
           /\ tx_fee <= MAX_FEE

\* The sample 0.5 BTC/KB was quoted and gave 2441.
C19_Witness == sample = [kind |-> "num", v |-> 5 * FeeCeiling] /\ tx_fee = 2441

\* C20. Fee quotes are not carried across cycles: whenever a decision is
\* pending or a send is in flight, tx_fee was returned by
\* calculate_transaction_fee in the current cycle, and the send carries
\* that fee.
C20_FeeFromSameCycle ==
    /\ pc \in {"decide", "sending"} => fresh
    /\ pc = "sending" => send_args.fee = tx_fee

\* In a poll after the first, a send is in flight with a quote lower than
\* the one an earlier output was skipped with.
C20_Witness ==
    /\ pc = "sending"
    /\ fresh
    /\ slept = CheckInterval
    /\ send_args.fee = tx_fee
    /\ \E o \in skipped : value[o] > tx_fee

\* C21. Strict serialization: a send is in flight only while the monitor is
\* inside that send, so there is never more than one; no refresh or sleep
\* happens while a list is being worked on or a send is in flight; and
\* while an output's decision or send is pending the loop has not moved on
\* to the next output.
InFlight ==
    {o \in Outputs : sendCount[o] > 0 /\ o \notin (okSent \cup failedSent)}

C21_StrictSerialization ==
    pc # "exited"
        => /\ Cardinality(InFlight) <= 1
           /\ InFlight = (IF pc = "sending" THEN {utxo} ELSE {})
           /\ (send_args # NoArgs) <=> (pc = "sending")
           /\ pc \in {"scan", "sleep"} => utxos = <<>>
           /\ pc \in {"decide", "sending"}
                 => (utxos # <<>> /\ Head(utxos) = utxo)

\* A send is in flight while another output waits in the list and an
\* earlier send of the same cycle has completed.
C21_Witness ==
    /\ pc = "sending"
    /\ Len(utxos) >= 2
    /\ okSent # {}
    /\ slept = 0

\* C22. Fixed-interval pacing: a refresh is only ever reached straight from
\* a sleep of the check interval (or from the start), a sleep is only ever
\* reached from the end of a cycle or from an error, never from another
\* sleep, and the sleep after an error lasts as long as the normal one.
C22_FixedIntervalPacing ==
    /\ slept \in {0, CheckInterval}
    /\ pc = "scan" => branch \in {"none", "slept", "errslept"}
    /\ branch \in {"slept", "errslept"}
          => (pc = "scan" /\ slept = CheckInterval)
    /\ branch = "none" => slept = 0
    /\ pc = "sleep" <=> branch = "cycleend"
    /\ pc = "errsleep" <=> branch \in {"scanerr", "malformed"}
    /\ branch = "scanned" => pc = "loop"

\* A cycle that sent an output ended normally and the monitor slept the
\* check interval before the refresh it is about to make.
C22_Witness ==
    /\ pc = "scan"
    /\ branch = "slept"
    /\ slept = CheckInterval
    /\ okSent # {}
    /\ failedSent # {}

\* C23. Bounded collaborator calls: whatever the collaborators do, every
\* call of the monitor ends, so the monitor reaches a refresh again and
\* again.
C23_CallsBounded == []<>(pc = "scan")

\* C24. Exit status: the process ends with a non-zero status only through
\* the failed validation of the destination address.
C24_OnlyValidationExitsNonZero ==
    exit_status \notin {NoExit, 0} => branch = "invalid"

\* C25. The fee policy is pure and deterministic: the fee a call returns is
\* fixed by the sample (or failure) it received, whatever the monitor's
\* state and whatever was returned before, so two calls with the same
\* sample return the same fee; and the call changes neither the ledger nor
\* anything else of the monitor (only its result reaches tx_fee).
FeeTable ==
    [s \in MonitorSamples |->
        IF s.kind # "num" THEN 10000
        ELSE IF s.v = 0 THEN 1000
        ELSE IF s.v = 8192 THEN 2000
        ELSE 5000]

C25_FeePure ==
    [][branch' = "fee"
          => /\ tx_fee' = FeeTable[sample']
             /\ (sample' = sample) => (tx_fee' = tx_fee)
             /\ UNCHANGED <<processed_txs, utxos, conf, value,
                            amount_to_forward, slept, history, send_args,
                            startup>>]_vars

\* In a later poll, with an identifier already in the ledger and another
\* fee in tx_fee before, the sample 8192 gave 2000 again.
C25_Witness ==
    /\ branch = "fee"
    /\ sample = [kind |-> "num", v |-> 8192]
    /\ tx_fee = 2000
    /\ processed_txs # {}
    /\ skipped # {}
    /\ slept = CheckInterval

\* C26. No cross-restart guarantee: a restarted process begins with an
\* empty ledger, and an output sent by an earlier run that is still listed
\* as unspent and confirmed is not passed over: a fee is computed and a
\* decision taken for it again.
C26_LedgerLostOnRestart ==
    [][/\ branch' = "restart"
             => /\ processed_txs' = {}
                /\ pc' = "scan"
                /\ UNCHANGED <<conf, value, history>>
       /\ (/\ HasNext
           /\ Head(utxos) \in okSent
           /\ Head(utxos).txid \notin processed_txs
           /\ conf[Head(utxos).txid] >= RequiredConfirmations
           /\ branch' \notin {"malformed", "cancel"})
             => (branch' = "fee" /\ pc' = "decide")]_vars

\* After a restart a second send is in flight for an output that an
\* earlier run had sent successfully.
C26_Witness ==
    /\ pc = "sending"
    /\ utxo \in okSent
    /\ sendCount[utxo] = 2
    /\ processed_txs = {}

\* C27. A failed send does not abort the poll cycle: the failing send
\* returns to the for loop with the rest of the list untouched and the
\* process running, and the next step reads the output that follows in the
\* same list (or ends the cycle normally when there is none).
C27_FailedSendKeepsCycle ==
    [][/\ branch' = "sendfail"
             => /\ pc = "sending" /\ pc' = "loop"
                /\ utxos' = Tail(utxos)
                /\ exit_status' = NoExit
                /\ slept' = slept
       /\ (branch = "sendfail" /\ branch' # "cancel")
             => IF utxos = <<>>
                THEN branch' = "cycleend"
                ELSE /\ utxo' = Head(utxos)
                     /\ branch' \in {"already", "wait", "fee", "malformed"}
                     /\ slept' = slept]_vars

\* In the first cycle a send failed and a fee was then computed for an
\* output listed after the failing one.
C27_Witness ==
    /\ branch = "fee"
    /\ slept = 0
    /\ failedSent # {}
    /\ utxo \notin failedSent
    /\ okSent = {}

\* C28. An error raised while an output is read is not rolled back and
\* cuts the cycle short: the step leaves the ledger and everything done for
\* earlier outputs as they are, the outputs listed after the failing one
\* leave the loop without being looked at or recorded, and until the sleep
\* of the except clause has ended nothing is evaluated, sent or recorded.
\* (So an output that fails on every poll keeps the outputs listed after
\* it from being evaluated in every poll.)
C28_ErrorCutsCycle ==
    [][/\ branch' = "malformed"
             => /\ pc' = "errsleep"
                /\ UNCHANGED <<processed_txs, history, tx_fee, sample>>
                /\ utxo' = Head(utxos)
                /\ rest' = Tail(utxos)
                /\ utxos' = <<>>
                /\ utxo' \notin Range(rest')
       /\ pc = "errsleep"
             => /\ pc' \in {"scan", "exited"}
                /\ UNCHANGED <<processed_txs, history, utxo, tx_fee, sample>>
       /\ rest' # <<>> => pc' \in {"errsleep", "exited"}]_vars

\* In the first cycle an output was recorded, then a reading failed and a
\* confirmed output that is not in the ledger was left unevaluated.
C28_Witness ==
    /\ branch = "malformed"
    /\ slept = 0
    /\ processed_txs # {}
    /\ rest # <<>>
    /\ Head(rest).txid \notin processed_txs
    /\ conf[Head(rest).txid] >= RequiredConfirmations
    /\ sendCount[Head(rest)] = 0

\* C29. Ledger provenance: every identifier in the ledger belongs to an
\* output that went through a decision (send invoked, or skipped), which
\* happens only with confirmations at or above the threshold and with a fee
\* computed in the same poll; an identifier whose outputs were only seen
\* below the threshold is not in the ledger.
C29_LedgerProvenance ==
    /\ \A t \in processed_txs :
          /\ conf[t] >= RequiredConfirmations
          /\ \E o \in Outputs :
                /\ o.txid = t
                /\ o \in (okSent \cup failedSent \cup skipped)
    /\ processed_txs # {} => sample # NoSample
    /\ branch \in {"skip", "sendok", "sendfail"}
          => /\ fresh
             /\ utxo.txid \in processed_txs
             /\ tx_fee = CalculateTransactionFee(sample)
    /\ \A t \in TxIds :
          conf[t] < RequiredConfirmations => t \notin processed_txs

\* While one identifier is in the ledger, an output of another transaction
\* was seen one confirmation short and its identifier stayed out.
C29_Witness ==
    /\ branch = "wait"
    /\ conf[utxo.txid] = RequiredConfirmations - 1
    /\ processed_txs = TxIds \ {utxo.txid}
    /\ processed_txs # {}

\* C30. Ceiling boundary of the fee policy: a sample equal to the ceiling
\* is converted and capped to MAX_FEE, a sample above it gives the fallback
\* rate's fee 2441; from one call to the next the fee does not decrease
\* when the sample does not decrease and stays at or below the ceiling, and
\* it drops when the sample goes from the ceiling to just above it.
C30_CeilingBoundary ==
    [][(sample'.kind = "num")
          => /\ sample'.v = FeeCeiling => tx_fee' = MAX_FEE
             /\ sample'.v > FeeCeiling => tx_fee' = 2441
             /\ (sample.kind = "num" /\ sample.v <= sample'.v
                                     /\ sample'.v <= FeeCeiling)
                   => tx_fee <= tx_fee'
             /\ (sample.kind = "num" /\ sample.v = FeeCeiling
                                     /\ sample'.v > FeeCeiling)
                   => tx_fee' < tx_fee]_vars

\* The sample just above the ceiling was quoted and gave 2441.
C30_Witness ==
    sample = [kind |-> "num", v |-> FeeCeiling + 1] /\ tx_fee = 2441

====
